---- MODULE Spec2Model ----
(***************************************************************************)
(* The shortcode store of the URL shortener (Backend/__init__.py):        *)
(* DatabaseHandler.save / get / get_stats / record_click over the map     *)
(* self.data, the audit Logger whose calls may raise, and the UTC clock.  *)
(* A shortcode is a sequence of one-character strings, so that the format *)
(* rule is decided character by character as the regular expression does. *)
(* Time is counted in minutes (validity is a number of minutes).          *)
(***************************************************************************)
EXTENDS Integers, Sequences, FiniteSets, TLC

VARIABLES data, clock, last, calls, pc, attempts, req, resp

vars == <<data, clock, last, calls, pc, attempts, req, resp>>

-----------------------------------------------------------------------------
(* Bounds of the model *)

MaxTime == 2

MaxClicks == 2

MaxRecords == 2

NumRequests == 3

-----------------------------------------------------------------------------
(* Program constants *)

MinLen == 4

MaxLen == 16

GenLen == 6

MaxAttempts == 10000

DefaultValidity == 30

\* Python's None where a string is expected (referrer, location).
None == "None"

\* item.shortcode = None (Optional[str] defaulting to None).
NoShortcode == <<"None">>

\* Optional[int]: {} is None, {n} is the integer n.
NoValidity == {}

-----------------------------------------------------------------------------
(* Characters and the format rule *)

Lower == {"a", "b", "c", "d", "e", "f", "g", "h", "i", "j", "k", "l", "m",
          "n", "o", "p", "q", "r", "s", "t", "u", "v", "w", "x", "y", "z"}

Upper == {"A", "B", "C", "D", "E", "F", "G", "H", "I", "J", "K", "L", "M",
          "N", "O", "P", "Q", "R", "S", "T", "U", "V", "W", "X", "Y", "Z"}

Digits == {"0", "1", "2", "3", "4", "5", "6", "7", "8", "9"}

\* The population of random.choices in _generate_shortcode.
Alphabet == <<"a", "b", "c", "d", "e", "f", "g", "h", "i", "j", "k", "l", "m",
              "n", "o", "p", "q", "r", "s", "t", "u", "v", "w", "x", "y", "z",
              "0", "1", "2", "3", "4", "5", "6", "7", "8", "9">>

\* The character class [a-zA-Z0-9] of SHORTCODE_REGEX (a str pattern with
\* explicit ranges: ASCII letters and digits only).
IsAlnum(ch) == ch \in Lower \cup Upper \cup Digits

\* The format rule as the specification states it: 4-16 alphanumeric
\* characters and nothing else.
FormatRule(s) ==
    /\ Len(s) >= MinLen
    /\ Len(s) <= MaxLen
    /\ \A i \in 1..Len(s) : s[i] \in Lower \cup Upper \cup Digits

\* SHORTCODE_REGEX.match(code) for ^[a-zA-Z0-9]{4,16}$ : n characters of the
\* class from the start, 4 <= n <= 16, and then `$`, which (without
\* re.MULTILINE) matches at the end of the string and also just before a
\* newline that is the last character of the string.
RegexMatch(s) ==
    \E n \in MinLen..MaxLen :
        /\ n <= Len(s)
        /\ \A i \in 1..n : IsAlnum(s[i])
        /\ \/ Len(s) = n
           \/ Len(s) = n + 1 /\ s[n + 1] = "\n"

\* DatabaseHandler._is_valid_shortcode
IsValidShortcode(code) == RegexMatch(code)

\* Python truthiness of item.shortcode: None and "" are falsy.
Truthy(s) == s # NoShortcode /\ s # <<>>

\* item.validity or 30
ValidityOrDefault(v) ==
    IF v = NoValidity \/ v = {0} THEN DefaultValidity ELSE CHOOSE n \in v : TRUE

-----------------------------------------------------------------------------
(* Inputs *)

Abcd == <<"a", "b", "c", "d">>

AbcdNewline == Abcd \o <<"\n">>

\* What the random source hands to random.choices: GenLen indices into the
\* population, one tuple per call.
RandomChoices == { <<1, 1, 1, 1, 1, 1>>, <<2, 27, 3, 28, 4, 29>> }

\* How many times in a row the random source repeats one tuple.
RunLengths == {1, MaxAttempts}

\* The random source during one save, run-length encoded: each run is a
\* tuple r handed out n times in a row. One draw; a run of one tuple and
\* then another tuple; or one tuple more often than the loop retries.
RandomRuns ==
    { << [r |-> r1, n |-> 1] >> : r1 \in RandomChoices }
    \cup UNION { { << [r |-> r1, n |-> n1], [r |-> r2, n |-> 1] >> :
                       r2 \in RandomChoices \ {r1}, n1 \in RunLengths } :
                   r1 \in RandomChoices }
    \cup { << [r |-> r1, n |-> MaxAttempts + 1] >> : r1 \in RandomChoices }

UrlA == "https://example.com"

UrlB == "https://other.example"

Item(url, v, sc) == [url |-> url, validity |-> v, shortcode |-> sc]

\* The request bodies of the store's callers: with and without a desired
\* shortcode, with a validity of one minute and with the default.
Items ==
    { Item(UrlA, {1}, Abcd),
      Item(UrlB, NoValidity, NoShortcode),
      Item(UrlA, {1}, <<"a">>) }

\* Desired shortcodes on both sides of the format rule: empty, too short,
\* with a character outside the class, with a trailing newline, with a
\* non-ASCII letter, of 16 and of 17 characters.
Sixteen == <<"a", "B", "3", "d", "e", "f", "g", "h", "i", "j", "k", "l", "m", "n", "o", "p">>

FormatShortcodes ==
    { NoShortcode,
      <<>>,
      <<"a">>,
      Abcd,
      <<"a", "b", "-", "d">>,
      AbcdNewline,
      <<"v", "U+00E1", "l", "i", "d", "1">>,
      Sixteen,
      Sixteen \o <<"q">> }

FormatItems == { Item(UrlA, {1}, sc) : sc \in FormatShortcodes }

GenItems == { Item(UrlB, NoValidity, NoShortcode) }

Referrers == {"https://ref.example"}

-----------------------------------------------------------------------------
(* The store: pure functions of the map *)

\* DatabaseHandler._generate_shortcode: "".join(random.choices(population, k=6))
GenerateShortcodeShort(r) == [i \in 1..(GenLen - 1) |-> Alphabet[r[i]]]

GenerateShortcode(r) == [i \in 1..GenLen |-> Alphabet[r[i]]]

\* The shortcodes the read operations are called with: a desired one and a
\* generated one.
LookupCodes == {Abcd, GenerateShortcode(<<1, 1, 1, 1, 1, 1>>)}

\* datetime.isoformat(): a string, not a datetime.
Isoformat(t) == <<"iso", t>>

IsoTime(s) == s[2]

\* The record of lines 79-86.
NewRecordDefaultExpiry(item, now) ==
    [url |-> item.url,
     validity |-> ValidityOrDefault(item.validity),
     expiry |-> now + DefaultValidity,
     created |-> now,
     clicks |-> 0,
     click_details |-> <<>>]

NewRecord(item, now) ==
    [url |-> item.url,
     validity |-> ValidityOrDefault(item.validity),
     expiry |-> now + ValidityOrDefault(item.validity),
     created |-> now,
     clicks |-> 0,
     click_details |-> <<>>]

\* self.data[shortcode] = {...}
Put(d, code, rec) == [c \in DOMAIN d \cup {code} |-> IF c = code THEN rec ELSE d[c]]

\* del self.data[shortcode]
Del(d, code) == [c \in DOMAIN d \ {code} |-> d[c]]

\* The generation loop of save over a run-length encoded random source:
\* a candidate that is not in the map ends the loop; a run of n colliding
\* draws adds n to attempts, and the loop raises at the draw that makes
\* attempts > 10_000. "NeedMore": the runs given do not decide the call.
RECURSIVE GenerateUnique(_, _, _)
GenerateUnique(d, runs, attempts0) ==
    IF runs = <<>>
    THEN [kind |-> "NeedMore", code |-> <<>>, draws |-> attempts0]
    ELSE LET shortcode == GenerateShortcode(Head(runs).r)
         IN  IF shortcode \notin DOMAIN d
             THEN [kind |-> "ok", code |-> shortcode, draws |-> attempts0 + 1]
             ELSE IF attempts0 + Head(runs).n > MaxAttempts
             THEN [kind |-> "Exhausted", code |-> <<>>, draws |-> MaxAttempts + 1]
             ELSE GenerateUnique(d, Tail(runs), attempts0 + Head(runs).n)

\* Lines 77-88 of save: the insertion; the Logger.info after it may raise,
\* and then save raises although the record is in the map.
Insert(d, item, code, now, logOk) ==
    [data |-> Put(d, code, NewRecord(item, now)),
     kind |-> IF logOk THEN "ok" ELSE "LogError",
     val |-> code]

\* A path of save that raises after one Logger call, which may raise first.
Raise(d, kind, logOk) ==
    [data |-> d, kind |-> IF logOk THEN kind ELSE "LogError", val |-> <<>>]

\* DatabaseHandler.save. Every path makes exactly one Logger call.
SaveOverwrites(d, item, now, runs, logOk) ==
    IF Truthy(item.shortcode)
    THEN IF ~IsValidShortcode(item.shortcode)
         THEN Raise(d, "InvalidFormat", logOk)
         ELSE Insert(d, item, item.shortcode, now, logOk)
    ELSE LET g == GenerateUnique(d, runs, 0)
         IN  IF g.kind = "ok"
             THEN Insert(d, item, g.code, now, logOk)
             ELSE Raise(d, g.kind, logOk)

SaveDropsTaken(d, item, now, runs, logOk) ==
    IF Truthy(item.shortcode)
    THEN IF ~IsValidShortcode(item.shortcode)
         THEN Raise(d, "InvalidFormat", logOk)
         ELSE IF item.shortcode \in DOMAIN d
         THEN Raise(Del(d, item.shortcode), "ShortcodeTaken", logOk)
         ELSE Insert(d, item, item.shortcode, now, logOk)
    ELSE LET g == GenerateUnique(d, runs, 0)
         IN  IF g.kind = "ok"
             THEN Insert(d, item, g.code, now, logOk)
             ELSE Raise(d, g.kind, logOk)

Save(d, item, now, runs, logOk) ==
    IF Truthy(item.shortcode)
    THEN IF ~IsValidShortcode(item.shortcode)
         THEN Raise(d, "InvalidFormat", logOk)
         ELSE IF item.shortcode \in DOMAIN d
         THEN Raise(d, "ShortcodeTaken", logOk)
         ELSE Insert(d, item, item.shortcode, now, logOk)
    ELSE LET g == GenerateUnique(d, runs, 0)
         IN  IF g.kind = "ok"
             THEN Insert(d, item, g.code, now, logOk)
             ELSE Raise(d, g.kind, logOk)

\* DatabaseHandler.get. Every path makes exactly one Logger call; when it
\* raises on the expired path, the record is already deleted.
GetNoDelete(d, code, now, logOk) ==
    IF code \notin DOMAIN d
    THEN [data |-> d, kind |-> IF logOk THEN "None" ELSE "LogError", val |-> <<>>]
    ELSE IF now > d[code].expiry
    THEN [data |-> d, kind |-> IF logOk THEN "None" ELSE "LogError", val |-> <<>>]
    ELSE [data |-> d, kind |-> IF logOk THEN "item" ELSE "LogError",
          val |-> IF logOk THEN d[code] ELSE <<>>]

GetEvictEarly(d, code, now, logOk) ==
    IF code \notin DOMAIN d
    THEN [data |-> d, kind |-> IF logOk THEN "None" ELSE "LogError", val |-> <<>>]
    ELSE IF now >= d[code].expiry
    THEN [data |-> Del(d, code), kind |-> IF logOk THEN "None" ELSE "LogError", val |-> <<>>]
    ELSE [data |-> d, kind |-> IF logOk THEN "item" ELSE "LogError",
          val |-> IF logOk THEN d[code] ELSE <<>>]

Get(d, code, now, logOk) ==
    IF code \notin DOMAIN d
    THEN [data |-> d, kind |-> IF logOk THEN "None" ELSE "LogError", val |-> <<>>]
    ELSE IF now > d[code].expiry
    THEN [data |-> Del(d, code), kind |-> IF logOk THEN "None" ELSE "LogError", val |-> <<>>]
    ELSE [data |-> d, kind |-> IF logOk THEN "item" ELSE "LogError",
          val |-> IF logOk THEN d[code] ELSE <<>>]

\* DatabaseHandler.get_stats: one Logger call on the absent path, none on
\* the other; no expiry check.
GetStatsEvicts(d, code, logOk) ==
    IF code \notin DOMAIN d
    THEN [data |-> d, kind |-> IF logOk THEN "None" ELSE "LogError", val |-> <<>>]
    ELSE [data |-> Del(d, code), kind |-> "stats",
          val |-> [shortLink |-> <<"http://localhost:8000/">> \o code,
                   originalUrl |-> d[code].url,
                   created |-> Isoformat(d[code].created),
                   expiry |-> Isoformat(d[code].expiry),
                   clicks |-> d[code].clicks,
                   clickDetails |-> d[code].click_details]]

GetStats(d, code, logOk) ==
    IF code \notin DOMAIN d
    THEN [data |-> d, kind |-> IF logOk THEN "None" ELSE "LogError", val |-> <<>>]
    ELSE [data |-> d, kind |-> "stats",
          val |-> [shortLink |-> <<"http://localhost:8000/">> \o code,
                   originalUrl |-> d[code].url,
                   created |-> Isoformat(d[code].created),
                   expiry |-> Isoformat(d[code].expiry),
                   clicks |-> d[code].clicks,
                   clickDetails |-> d[code].click_details]]

ClickEvent(now, referrer, location) ==
    [timestamp |-> Isoformat(now), referrer |-> referrer, location |-> location]

\* Lines 120-125 of record_click.
ClickedNoCount(rec, now, referrer, location) ==
    [rec EXCEPT !.click_details = Append(@, ClickEvent(now, referrer, location))]

ClickedPrepend(rec, now, referrer, location) ==
    [rec EXCEPT !.clicks = @ + 1,
                !.click_details = <<ClickEvent(now, referrer, location)>> \o @]

Clicked(rec, now, referrer, location) ==
    [rec EXCEPT !.clicks = @ + 1,
                !.click_details = Append(@, ClickEvent(now, referrer, location))]

\* DatabaseHandler.record_click: no expiry check; the update comes before
\* the Logger call, and an absent shortcode makes no call at all.
RecordClickChecksExpiry(d, code, now, referrer, location, logOk) ==
    IF code \notin DOMAIN d
    THEN [data |-> d, kind |-> "ok", val |-> <<>>]
    ELSE IF now > d[code].expiry
    THEN [data |-> d, kind |-> "ok", val |-> <<>>]
    ELSE [data |-> [d EXCEPT ![code] = Clicked(@, now, referrer, location)],
          kind |-> IF logOk THEN "ok" ELSE "LogError", val |-> <<>>]

RecordClickAbsentRaises(d, code, now, referrer, location, logOk) ==
    IF code \notin DOMAIN d
    THEN [data |-> d, kind |-> "KeyError", val |-> <<>>]
    ELSE [data |-> [d EXCEPT ![code] = Clicked(@, now, referrer, location)],
          kind |-> IF logOk THEN "ok" ELSE "LogError", val |-> <<>>]

RecordClick(d, code, now, referrer, location, logOk) ==
    IF code \notin DOMAIN d
    THEN [data |-> d, kind |-> "ok", val |-> <<>>]
    ELSE [data |-> [d EXCEPT ![code] = Clicked(@, now, referrer, location)],
          kind |-> IF logOk THEN "ok" ELSE "LogError", val |-> <<>>]

-----------------------------------------------------------------------------
(* The state machine of the store: one action per call of a method *)

Idle == pc = "idle"

NoRequest == Item("", NoValidity, NoShortcode)

\* A request that has not been answered yet.
Pending == [status |-> 0, error |-> "pending"]

\* What the caller of the last call saw: the method, its shortcode
\* argument, how it ended (a return value's kind, or the exception), the
\* value returned, and whether the map changed.
Observe(op, code, res, d) ==
    [op |-> op, code |-> code, kind |-> res.kind, val |-> res.val,
     changed |-> res.data # d]

\* _database_handler = DatabaseHandler(): an empty map.
Init ==
    /\ data = <<>>
    /\ clock = 0
    /\ last = [op |-> "init", code |-> <<>>, kind |-> "ok", val |-> <<>>, changed |-> FALSE]
    /\ calls = <<>>
    /\ pc = "idle"
    /\ attempts = 0
    /\ req = NoRequest
    /\ resp = [i \in 1..NumRequests |-> Pending]

\* Time passes between two calls.
Tick ==
    /\ Idle
    /\ clock < MaxTime
    /\ clock' = clock + 1
    /\ last' = [op |-> "tick", code |-> <<>>, kind |-> "ok", val |-> <<>>, changed |-> FALSE]
    /\ UNCHANGED <<data, calls, pc, attempts, req, resp>>

TotalClicks(d) ==
    LET RECURSIVE Sum(_)
        Sum(S) == IF S = {} THEN 0
                  ELSE LET c == CHOOSE x \in S : TRUE IN d[c].clicks + Sum(S \ {c})
    IN  Sum(DOMAIN d)

\* The count of record_click calls on each record since its creation
\* (kept beside the map, for the claims about N calls).
CallsAfterSave(res) ==
    [c \in DOMAIN res.data |->
        IF c \in DOMAIN data /\ ~(c = res.val /\ res.data # data) THEN calls[c] ELSE 0]

\* save(item); the random source is an input.
DoSave(items) ==
    /\ Idle
    /\ \E item \in items, logOk \in BOOLEAN :
       \E runs \in IF Truthy(item.shortcode) THEN {<<>>} ELSE RandomRuns :
        LET res == Save(data, item, clock, runs, logOk)
        IN  /\ res.kind # "NeedMore"
            /\ Cardinality(DOMAIN res.data) <= MaxRecords
            /\ data' = res.data
            /\ last' = Observe("save", item.shortcode, res, data)
            /\ calls' = CallsAfterSave(res)
    /\ UNCHANGED <<clock, pc, attempts, req, resp>>

\* get(shortcode)
DoGet ==
    /\ Idle
    /\ \E code \in LookupCodes, logOk \in BOOLEAN :
        LET res == Get(data, code, clock, logOk)
        IN  /\ data' = res.data
            /\ last' = Observe("get", code, res, data)
            /\ calls' = [c \in DOMAIN res.data |-> calls[c]]
    /\ UNCHANGED <<clock, pc, attempts, req, resp>>

\* get_stats(shortcode)
DoGetStats ==
    /\ Idle
    /\ \E code \in LookupCodes, logOk \in BOOLEAN :
        LET res == GetStats(data, code, logOk)
        IN  /\ data' = res.data
            /\ last' = Observe("get_stats", code, res, data)
    /\ UNCHANGED <<clock, calls, pc, attempts, req, resp>>

\* record_click(shortcode, referrer, location)
DoRecordClick ==
    /\ Idle
    /\ \E code \in LookupCodes, ref \in Referrers, logOk \in BOOLEAN :
        LET res == RecordClick(data, code, clock, ref, None, logOk)
        IN  /\ code \in DOMAIN data => TotalClicks(data) < MaxClicks
            /\ data' = res.data
            /\ last' = Observe("record_click", code, res, data)
            /\ calls' = [c \in DOMAIN calls |-> IF c = code THEN calls[c] + 1 ELSE calls[c]]
    /\ UNCHANGED <<clock, pc, attempts, req, resp>>

Next == Tick \/ DoSave(Items) \/ DoGet \/ DoGetStats \/ DoRecordClick

Spec == Init /\ [][Next]_vars

\* The store called with desired shortcodes on both sides of the format rule.
NextFormat == Tick \/ DoSave(FormatItems) \/ DoGet

SpecFormat == Init /\ [][NextFormat]_vars

-----------------------------------------------------------------------------
(* The generation loop of save, one iteration per step (lines 68-76) *)

\* save(item) with no desired shortcode enters the loop: attempts = 0.
GenBegin ==
    /\ Idle
    /\ \E item \in GenItems :
        /\ ~Truthy(item.shortcode)
        /\ req' = item
    /\ pc' = "loop"
    /\ attempts' = 0
    /\ last' = [op |-> "save", code |-> NoShortcode, kind |-> "running", val |-> <<>>,
                changed |-> FALSE]
    /\ UNCHANGED <<data, clock, calls, resp>>

\* One iteration: draw a candidate; leave the loop when it is not in the
\* map (and insert, lines 77-88), else count the attempt and raise once
\* attempts > 10_000.
GenDraw ==
    /\ pc = "loop"
    /\ \E r \in RandomChoices :
        LET shortcode == GenerateShortcode(r)
        IN  IF shortcode \notin DOMAIN data
            THEN \E logOk \in BOOLEAN :
                 LET res == Insert(data, req, shortcode, clock, logOk)
                 IN  /\ data' = res.data
                     /\ last' = Observe("save", NoShortcode, res, data)
                     /\ calls' = CallsAfterSave(res)
                     /\ pc' = "idle"
                     /\ req' = NoRequest
                     /\ UNCHANGED attempts
            ELSE /\ attempts' = attempts + 1
                 /\ IF attempts + 1 > MaxAttempts
                    THEN \E logOk \in BOOLEAN :
                         /\ pc' = "idle"
                         /\ req' = NoRequest
                         /\ last' = Observe("save", NoShortcode,
                                            Raise(data, "Exhausted", logOk), data)
                    ELSE UNCHANGED <<pc, req, last>>
                 /\ UNCHANGED <<data, calls>>
    /\ UNCHANGED <<clock, resp>>

NextGen == GenBegin \/ GenDraw

SpecGen == Init /\ [][NextGen]_vars

-----------------------------------------------------------------------------
(* POST /shorturls, and requests for one desired shortcode racing *)

\* What a Logger call raises: raise_for_status() raises an HTTPError, and
\* response.json() (in Logger.log and in the token fetch) a JSONDecodeError,
\* which is a ValueError.
LogErrors == {"HTTPError", "JSONDecodeError"}

\* create_short_url. Its Logger calls, in order: line 137 (outside the
\* try), the one of save, the one of get, line 142; on the except paths
\* line 145 or 148 comes after save's. failAt is the first call of the
\* request that raises (0: none) and exc what it raises. save reads the
\* clock at `now` and get at `now + stall`: each Logger call between them
\* is a blocking HTTP request. `except ValueError` answers 409 whatever
\* raised the ValueError; an exception outside the try, or inside an
\* except block, is answered 500 by the framework. saved: how save ended.
CreateShortUrl(d, item, now, stall, runs, failAt, exc) ==
    IF failAt = 1
    THEN [data |-> d, status |-> 500, error |-> "LogError", val |-> <<>>, saved |-> "none"]
    ELSE LET s == Save(d, item, now, runs, failAt # 2)
             caught == IF exc = "JSONDecodeError" THEN 409 ELSE 500
         IN  IF s.kind = "ok"
             THEN LET g == Get(s.data, s.val, now + stall, failAt # 3)
                  IN  IF g.kind = "item" /\ failAt # 4
                      THEN [data |-> g.data, status |-> 201, error |-> "",
                            val |-> [shortLink |-> <<"http://client:8000/">> \o s.val,
                                     expiry |-> g.val.expiry],
                            saved |-> s.kind]
                      ELSE IF g.kind = "None"
                      THEN [data |-> g.data, status |-> 500, error |-> "TypeError",
                            val |-> <<>>, saved |-> s.kind]
                      ELSE [data |-> g.data, status |-> caught, error |-> "LogError",
                            val |-> <<>>, saved |-> s.kind]
             ELSE IF s.kind = "LogError"
             THEN [data |-> s.data, status |-> caught, error |-> "LogError",
                   val |-> <<>>, saved |-> s.kind]
             ELSE IF failAt = 3
             THEN [data |-> s.data, status |-> 500, error |-> "LogError",
                   val |-> <<>>, saved |-> s.kind]
             ELSE IF s.kind \in {"InvalidFormat", "ShortcodeTaken"}
             THEN [data |-> s.data, status |-> 409, error |-> s.kind,
                   val |-> <<>>, saved |-> s.kind]
             ELSE [data |-> s.data, status |-> 500, error |-> s.kind,
                   val |-> <<>>, saved |-> s.kind]

\* The requests that race: the same desired shortcode in each.
RaceItems == { Item(UrlA, {1}, Abcd), Item(UrlB, NoValidity, Abcd) }

LogCalls == 0..4

\* The handler has no await: the event loop runs each request to its end
\* before the next, in any order.
Serve(i) ==
    /\ Idle
    /\ resp[i] = Pending
    /\ \E item \in RaceItems, stall \in 0..(MaxTime - clock),
          failAt \in LogCalls, exc \in LogErrors :
        LET r == CreateShortUrl(data, item, clock, stall, <<>>, failAt, exc)
        IN  /\ data' = r.data
            /\ clock' = clock + stall
            /\ resp' = [resp EXCEPT ![i] = [status |-> r.status, error |-> r.error]]
            /\ last' = [op |-> "create_short_url", code |-> item.shortcode,
                        kind |-> r.error, val |-> r.val, changed |-> r.data # data]
            /\ calls' = [c \in DOMAIN r.data |-> IF c \in DOMAIN data THEN calls[c] ELSE 0]
    /\ UNCHANGED <<pc, attempts, req>>

NextRace == Tick \/ \E i \in 1..NumRequests : Serve(i)

SpecRace == Init /\ [][NextRace]_vars

-----------------------------------------------------------------------------
(* The three routes over one store *)

\* redirect_short_url. Its Logger calls, in order: line 162, the one of
\* get, then line 165 (404) or line 168 (410) or the one of record_click
\* and line 175. No try: whatever a Logger call raises is answered 500 by
\* the framework. get reads the clock at `now`, and line 167 and
\* record_click at `now + stall` (get's Logger call lies between).
RedirectShortUrl(d, code, now, stall, referrer, failAt) ==
    IF failAt = 1
    THEN [data |-> d, status |-> 500, error |-> "LogError", val |-> <<>>]
    ELSE LET g == Get(d, code, now, failAt # 2)
         IN  IF g.kind = "LogError"
             THEN [data |-> g.data, status |-> 500, error |-> "LogError", val |-> <<>>]
             ELSE IF g.kind = "None"
             THEN IF failAt = 3
                  THEN [data |-> g.data, status |-> 500, error |-> "LogError", val |-> <<>>]
                  ELSE [data |-> g.data, status |-> 404, error |-> "Shortcode not found",
                        val |-> <<>>]
             ELSE IF now + stall > g.val.expiry
             THEN IF failAt = 3
                  THEN [data |-> g.data, status |-> 500, error |-> "LogError", val |-> <<>>]
                  ELSE [data |-> g.data, status |-> 410, error |-> "Shortcode has expired",
                        val |-> <<>>]
             ELSE LET c == RecordClick(g.data, code, now + stall, referrer, None, failAt # 3)
                  IN  IF c.kind = "LogError" \/ failAt = 4
                      THEN [data |-> c.data, status |-> 500, error |-> "LogError",
                            val |-> <<>>]
                      ELSE [data |-> c.data, status |-> 307, error |-> "",
                            val |-> g.val.url]

\* get_short_url_stats. Its Logger calls: line 153, the one of get_stats
\* on its absent path, line 156.
GetShortUrlStats(d, code, failAt) ==
    IF failAt = 1
    THEN [data |-> d, status |-> 500, error |-> "LogError", val |-> <<>>]
    ELSE LET g == GetStats(d, code, failAt # 2)
         IN  IF g.kind = "LogError" \/ (g.kind = "None" /\ failAt = 3)
             THEN [data |-> g.data, status |-> 500, error |-> "LogError", val |-> <<>>]
             ELSE IF g.kind = "None"
             THEN [data |-> g.data, status |-> 404, error |-> "Shortcode not found",
                   val |-> <<>>]
             ELSE [data |-> g.data, status |-> 200, error |-> "", val |-> g.val]

\* What the client of the last request saw, and what the store did.
Answer(op, code, r, saved) ==
    [op |-> op, code |-> code, kind |-> r.error, val |-> r.val,
     changed |-> r.data # data, status |-> r.status, saved |-> saved]

\* POST /shorturls
Post ==
    /\ Idle
    /\ \E item \in Items, stall \in 0..(MaxTime - clock),
          failAt \in LogCalls, exc \in LogErrors :
       \E runs \in IF Truthy(item.shortcode) THEN {<<>>} ELSE RandomRuns :
        LET r == CreateShortUrl(data, item, clock, stall, runs, failAt, exc)
        IN  /\ r.saved # "NeedMore"
            /\ Cardinality(DOMAIN r.data) <= MaxRecords
            /\ data' = r.data
            /\ clock' = clock + stall
            /\ last' = Answer("create_short_url", item.shortcode, r, r.saved)
            /\ calls' = [c \in DOMAIN r.data |->
                            IF c \in DOMAIN data /\ data[c] = r.data[c] THEN calls[c] ELSE 0]
    /\ UNCHANGED <<pc, attempts, req, resp>>

\* GET /{shortcode}
Redirect ==
    /\ Idle
    /\ \E code \in LookupCodes, stall \in 0..(MaxTime - clock),
          ref \in Referrers, failAt \in LogCalls :
        LET r == RedirectShortUrl(data, code, clock, stall, ref, failAt)
        IN  /\ TotalClicks(r.data) <= MaxClicks
            /\ data' = r.data
            /\ clock' = clock + stall
            /\ last' = Answer("redirect_short_url", code, r, "none")
            /\ calls' = [c \in DOMAIN r.data |->
                            IF data[c] = r.data[c] THEN calls[c] ELSE calls[c] + 1]
    /\ UNCHANGED <<pc, attempts, req, resp>>

\* GET /shorturls/{shortcode}
Stats ==
    /\ Idle
    /\ \E code \in LookupCodes, failAt \in LogCalls :
        LET r == GetShortUrlStats(data, code, failAt)
        IN  /\ data' = r.data
            /\ last' = Answer("get_short_url_stats", code, r, "none")
    /\ UNCHANGED <<clock, calls, pc, attempts, req, resp>>

NextHttp == Tick \/ Post \/ Redirect \/ Stats

SpecHttp == Init /\ [][NextHttp]_vars

-----------------------------------------------------------------------------
(* Create, wait, resolve: the store over a whole default validity *)

\* Request bodies for the round trip: two urls, validities absent (the
\* default), 1 and 2, with and without a desired shortcode.
RoundTripItems ==
    { Item(UrlA, {1}, Abcd),
      Item(UrlB, {2}, Abcd),
      Item(UrlA, NoValidity, Abcd),
      Item(UrlB, NoValidity, NoShortcode),
      Item(UrlA, {2}, NoShortcode) }

\* save(item). req keeps the request whose record save put in the map
\* last, with the shortcode the record is under.
Create ==
    /\ Idle
    /\ \E item \in RoundTripItems, logOk \in BOOLEAN :
       \E runs \in IF Truthy(item.shortcode) THEN {<<>>} ELSE RandomRuns :
        LET res == Save(data, item, clock, runs, logOk)
        IN  /\ res.kind # "NeedMore"
            /\ Cardinality(DOMAIN res.data) <= MaxRecords
            /\ data' = res.data
            /\ last' = Observe("save", item.shortcode, res, data)
            /\ calls' = CallsAfterSave(res)
            /\ req' = IF res.data # data THEN [item EXCEPT !.shortcode = res.val] ELSE req
    /\ UNCHANGED <<clock, pc, attempts, resp>>

\* A default validity passes between two calls.
Wait ==
    /\ Idle
    /\ clock <= MaxTime
    /\ clock' = clock + DefaultValidity
    /\ last' = [op |-> "tick", code |-> <<>>, kind |-> "ok", val |-> <<>>, changed |-> FALSE]
    /\ UNCHANGED <<data, calls, pc, attempts, req, resp>>

NextRoundTrip == Tick \/ Wait \/ Create \/ DoGet

SpecRoundTrip == Init /\ [][NextRoundTrip]_vars

-----------------------------------------------------------------------------
(* The claims *)

Live(d, c, now) == ~(now > d[c].expiry)

Absent(kind) == kind \in {"None", "LogError"}

C1_AfterGet ==
    last.op = "get" =>
        /\ last.kind \in {"item", "None", "LogError"}
        /\ last.kind = "item" =>
              /\ last.code \in DOMAIN data
              /\ last.val = data[last.code]
              /\ ~(last.val.expiry < clock)
        /\ last.code \in DOMAIN data => ~(clock > data[last.code].expiry)
        /\ last.code \notin DOMAIN data => Absent(last.kind)

C1_GetStep ==
    \A code \in LookupCodes :
        /\ (last'.op = "get" /\ last'.code = code
                /\ code \in DOMAIN data /\ clock > data[code].expiry)
              => code \notin DOMAIN data' /\ Absent(last'.kind)
        /\ (last'.op = "get" /\ last'.code = code /\ code \notin DOMAIN data)
              => code \notin DOMAIN data' /\ Absent(last'.kind)
        /\ (code \notin DOMAIN data /\ code \in DOMAIN data') => last'.op = "save"

\* C1: resolve (get) never returns a record whose expiry is earlier than the
\* time of the call; a get of a shortcode whose record is past its expiry
\* deletes the record and returns no record (None, or nothing at all when
\* its Logger call raises), and the shortcode stays out of the map, every
\* later get of it returning no record, until a save puts it back.
C1_ResolveNeverReturnsExpired == []C1_AfterGet /\ [][C1_GetStep]_vars

\* C1's case: a get has just deleted an expired record and returned None.
C1_Witness ==
    /\ last.op = "get"
    /\ last.changed
    /\ last.kind = "None"
    /\ last.code \notin DOMAIN data

Answered == \A i \in 1..NumRequests : resp[i] # Pending

\* C2: of the requests racing for one desired shortcode (not in the store
\* beforehand) exactly one succeeds (201) and inserts the record, and every
\* other one fails with ShortcodeTaken, never two succeeding. Stated on the
\* runs in which the record has been inserted, and counting a request whose
\* Logger call raised before the store answered as one that failed: once all
\* are answered and the record is in the map, one request has answered 201
\* and no other has.
C2_ExactlyOneCreateSucceeds ==
    (Answered /\ Abcd \in DOMAIN data) =>
        \E i \in 1..NumRequests :
            /\ resp[i].status = 201
            /\ \A j \in 1..NumRequests \ {i} :
                  /\ resp[j].status # 201
                  /\ resp[j].error \in {"ShortcodeTaken", "LogError"}

\* C3: save with a desired shortcode that is the key of a live record
\* fails with ShortcodeTaken (or with the exception of its Logger call) and
\* leaves the map alone; save with a desired shortcode whose record is past
\* its expiry, evicted or not, puts a new record under it.
C3_CreateAfterExpirySucceeds ==
    [][ \A code \in {Abcd} :
          (last'.op = "save" /\ last'.code = code /\ code \in DOMAIN data) =>
              IF Live(data, code, clock)
              THEN last'.kind \in {"ShortcodeTaken", "LogError"} /\ data' = data
              ELSE /\ last'.kind \in {"ok", "LogError"}
                   /\ code \in DOMAIN data'
                   /\ data'[code].created = clock
                   /\ data'[code].clicks = 0 ]_vars

\* C4: for every record in the map clicks equals the length of
\* click_details, and right after a save that inserted a record that
\* record has clicks = 0 and an empty click_details.
C4_ClicksEqualsLogLength ==
    /\ \A c \in DOMAIN data : data[c].clicks = Len(data[c].click_details)
    /\ (last.op = "save" /\ last.changed) =>
          /\ last.val \in DOMAIN data
          /\ data[last.val].clicks = 0
          /\ data[last.val].click_details = <<>>

\* C4's case: a record that has been clicked as often as the model allows.
C4_Witness ==
    \E c \in DOMAIN data : data[c].clicks = MaxClicks /\ Len(data[c].click_details) = MaxClicks

IsPrefix(s, t) == Len(s) <= Len(t) /\ SubSeq(t, 1, Len(s)) = s

C5_AfterNCalls ==
    \A c \in DOMAIN data :
        /\ data[c].clicks = calls[c]
        /\ Len(data[c].click_details) = calls[c]
        /\ \A i \in 1..Len(data[c].click_details), j \in 1..Len(data[c].click_details) :
              i < j => IsoTime(data[c].click_details[i].timestamp)
                          <= IsoTime(data[c].click_details[j].timestamp)

C5_ClickStep ==
    \A c \in DOMAIN data \cap DOMAIN data' :
        /\ IsPrefix(data[c].click_details, data'[c].click_details)
        /\ calls'[c] = calls[c] + 1 =>
              /\ Len(data'[c].click_details) = Len(data[c].click_details) + 1
              /\ data'[c].click_details[Len(data'[c].click_details)].timestamp
                    = Isoformat(clock)

\* C5: after N record_click calls on a shortcode since its record was
\* created the record has clicks = N and N events in click_details, their
\* timestamps in non-decreasing order; each call appends one event, stamped
\* with the time of the call, at the end, and no step reorders, changes or
\* removes the events already there.
C5_NClicksInOrder == []C5_AfterNCalls /\ [][C5_ClickStep]_vars

\* C5's case: two calls at different times on one record.
C5_Witness ==
    \E c \in DOMAIN data :
        /\ calls[c] = 2
        /\ Len(data[c].click_details) = 2
        /\ data[c].click_details[1].timestamp # data[c].click_details[2].timestamp

\* C6: every key of the map satisfies the format rule (ASCII letters and
\* digits only, 4 to 16 of them), whatever desired shortcode save was given.
C6_KeysSatisfyFormatRule == \A c \in DOMAIN data : FormatRule(c)

\* C7: save with a desired shortcode (the empty string included) that does
\* not satisfy the format rule fails with InvalidShortcodeFormat (or with
\* the exception of its Logger call) and leaves the map as it was.
C7_InvalidShortcodeRejected ==
    (last.op = "save" /\ last.code # NoShortcode /\ ~FormatRule(last.code)) =>
        /\ last.kind \in {"InvalidFormat", "LogError"}
        /\ ~last.changed

\* C8: the generation loop draws no candidate after 10,000 consecutive
\* collisions: it has then failed with ShortcodeSpaceExhausted, with
\* nothing inserted; so it is never in the loop with attempts at 10,000 or
\* more.
C8_FailsAfterTenThousandCollisions ==
    /\ pc = "loop" => attempts < MaxAttempts
    /\ (last.op = "save" /\ last.kind = "Exhausted") =>
          attempts = MaxAttempts /\ ~last.changed

\* C9: a successful save without a desired shortcode returns a shortcode of
\* exactly 6 characters, each of a-z or 0-9, that is the key of no record
\* live in the map when the call is made, and the new record is under it.
C9_GeneratedShortcodeFreshAndFormatted ==
    [][ (last'.op = "save" /\ ~Truthy(last'.code) /\ last'.kind = "ok") =>
            /\ Len(last'.val) = GenLen
            /\ \A i \in 1..Len(last'.val) : last'.val[i] \in Lower \cup Digits
            /\ \A c \in DOMAIN data : Live(data, c, clock) => c # last'.val
            /\ last'.val \in DOMAIN data'
            /\ data'[last'.val].created = clock ]_vars

\* C9's case: a shortcode generated while another record was live.
C9_Witness ==
    /\ last.op = "save"
    /\ ~Truthy(last.code)
    /\ last.kind = "ok"
    /\ \E c \in DOMAIN data : c # last.val /\ Live(data, c, clock)

\* C10: no read returns data of a record whose expiry has passed: what get
\* returns and what get_stats returns has an expiry not before the time of
\* the call.
C10_NoReadReturnsExpired ==
    /\ (last.op = "get" /\ last.kind = "item") => ~(clock > last.val.expiry)
    /\ (last.op = "get_stats" /\ last.kind = "stats") => ~(clock > IsoTime(last.val.expiry))

\* C11: GET /{shortcode} answers 404 when the shortcode is not in the map,
\* 410 "Shortcode has expired" when its record is in the map and past its
\* expiry when the request arrives (never 404 then), and otherwise, the
\* record still live when the handler has it, redirects to the record's
\* url after recording exactly one click. Requests in which a Logger call
\* raised are left aside.
C11_RedirectAnswers ==
    [][ \A code \in LookupCodes :
          (last'.op = "redirect_short_url" /\ last'.code = code /\ last'.kind # "LogError") =>
              IF code \notin DOMAIN data
              THEN last'.status = 404
              ELSE IF clock > data[code].expiry
              THEN last'.status = 410 /\ last'.kind = "Shortcode has expired"
              ELSE IF clock' > data[code].expiry
              THEN last'.status \in {410, 307}
              ELSE /\ last'.status = 307
                   /\ last'.val = data[code].url
                   /\ code \in DOMAIN data'
                   /\ data'[code].clicks = data[code].clicks + 1 ]_vars

\* C12: POST /shorturls answers 201 when save succeeded, 409 when save
\* failed with ShortcodeTaken or InvalidShortcodeFormat, and 500 for every
\* other failure (ShortcodeSpaceExhausted included): no failure is answered
\* 201, and neither ShortcodeTaken nor InvalidShortcodeFormat 500.
C12_PostStatusMapping ==
    last.op = "create_short_url" =>
        /\ last.saved = "ok" => last.status = 201
        /\ last.saved \in {"InvalidFormat", "ShortcodeTaken"} => last.status = 409
        /\ last.saved \notin {"ok", "InvalidFormat", "ShortcodeTaken"} => last.status = 500
        /\ last.status = 201 => last.saved = "ok"

\* C13: a get of the shortcode a save has put a record under, for every
\* url and every validity (30 when absent): while the time is not past
\* created + validity minutes it returns the record (or its Logger call
\* raises), with the url of the request and expiry = created + validity,
\* and when it follows the successful save immediately the record has
\* created = now, clicks = 0 and an empty click_details; once the time is
\* past created + validity it returns no record and the record is gone.
C13_RoundTrip ==
    [][ (last'.op = "get" /\ req # NoRequest /\ last'.code = req.shortcode
            /\ req.shortcode \in DOMAIN data) =>
          LET rec == data[req.shortcode]
              validity == IF req.validity = NoValidity THEN DefaultValidity
                          ELSE CHOOSE n \in req.validity : TRUE
          IN  /\ rec.url = req.url
              /\ rec.expiry = rec.created + validity
              /\ IF clock > rec.created + validity
                 THEN Absent(last'.kind) /\ req.shortcode \notin DOMAIN data'
                 ELSE /\ last'.kind \in {"item", "LogError"}
                      /\ data' = data
                      /\ last'.kind = "item" =>
                            /\ last'.val.url = req.url
                            /\ last'.val.expiry = last'.val.created + validity
                            /\ last'.val = rec
              /\ (last.op = "save" /\ last.kind = "ok" /\ last.val = req.shortcode) =>
                    /\ last'.kind \in {"item", "LogError"}
                    /\ rec.created = clock
                    /\ rec.clicks = 0
                    /\ rec.click_details = <<>> ]_vars

\* C13's case: a record created with the default validity, resolved after
\* the 30 minutes have passed: the get returned None and evicted it.
C13_Witness ==
    /\ last.op = "get"
    /\ req # NoRequest
    /\ req.validity = NoValidity
    /\ last.code = req.shortcode
    /\ last.kind = "None"
    /\ last.changed
    /\ clock > DefaultValidity

\* C14: a record leaves the map only in a get of its shortcode made when
\* the time is past its expiry; save, get, record_click and get_stats never
\* remove a live record; a record in the map keeps its created and expiry,
\* one that is past its expiry stays past it while in the map, and a key
\* that enters the map does so in a save, with a record created at that
\* time: an evicted record does not come back.
C14_RecordLifecycle ==
    [][ /\ \A c \in DOMAIN data :
              /\ c \notin DOMAIN data' =>
                    /\ last'.op = "get"
                    /\ last'.code = c
                    /\ clock > data[c].expiry
              /\ c \in DOMAIN data' =>
                    /\ data'[c].created = data[c].created
                    /\ data'[c].expiry = data[c].expiry
                    /\ ~Live(data, c, clock) => ~Live(data', c, clock')
        /\ \A c \in DOMAIN data' \ DOMAIN data :
              /\ last'.op = "save"
              /\ data'[c].created = clock'
              /\ Live(data', c, clock') ]_vars

\* C14's case: a get has evicted an expired record while a live record
\* stays in the map.
C14_Witness ==
    /\ last.op = "get"
    /\ last.changed
    /\ last.code \notin DOMAIN data
    /\ \E c \in DOMAIN data : Live(data, c, clock)

\* C15: record_click of a shortcode that is not in the map raises nothing
\* and leaves the map as it was; record_click of a shortcode that is in
\* the map leaves the keys, every other record, and that record's url,
\* validity, created and expiry as they were.
C15_RecordClickFrame ==
    [][ last'.op = "record_click" =>
          IF last'.code \notin DOMAIN data
          THEN data' = data /\ last'.kind = "ok"
          ELSE /\ DOMAIN data' = DOMAIN data
               /\ \A k \in DOMAIN data \ {last'.code} : data'[k] = data[k]
               /\ data'[last'.code].url = data[last'.code].url
               /\ data'[last'.code].validity = data[last'.code].validity
               /\ data'[last'.code].created = data[last'.code].created
               /\ data'[last'.code].expiry = data[last'.code].expiry ]_vars

\* C15's case: record_click of a shortcode that is not in a map that holds
\* another record has returned.
C15_Witness ==
    /\ last.op = "record_click"
    /\ last.code \notin DOMAIN data
    /\ last.kind = "ok"
    /\ data # <<>>

\* C16: record_click of a shortcode whose record is in the map and past
\* its expiry still adds 1 to clicks and appends one event, stamped with
\* the time of the call, to click_details, and the record stays in the map.
C16_RecordClickIgnoresExpiry ==
    [][ (last'.op = "record_click" /\ last'.code \in DOMAIN data
            /\ clock > data[last'.code].expiry) =>
          /\ last'.code \in DOMAIN data'
          /\ data'[last'.code].clicks = data[last'.code].clicks + 1
          /\ \E ref \in Referrers :
                data'[last'.code].click_details =
                    Append(data[last'.code].click_details, ClickEvent(clock, ref, None)) ]_vars

\* C16's case: a click has been recorded on a record past its expiry.
C16_Witness ==
    /\ last.op = "record_click"
    /\ last.changed
    /\ last.code \in DOMAIN data
    /\ clock > data[last.code].expiry
    /\ data[last.code].clicks > 0

\* C17: get_stats leaves the map as it was; it returns no stats (None, or
\* nothing when its Logger call raises) exactly when the shortcode is not
\* a key of the map; for a key of the map, past its expiry or not, it
\* returns originalUrl, created, expiry, clicks and clickDetails equal to
\* the record's fields (the two times in ISO format).
C17_GetStatsReadsOnly ==
    [][ last'.op = "get_stats" =>
          /\ data' = data
          /\ last'.code \notin DOMAIN data <=> Absent(last'.kind)
          /\ last'.code \in DOMAIN data =>
                /\ last'.kind = "stats"
                /\ last'.val.originalUrl = data[last'.code].url
                /\ last'.val.created = Isoformat(data[last'.code].created)
                /\ last'.val.expiry = Isoformat(data[last'.code].expiry)
                /\ last'.val.clicks = data[last'.code].clicks
                /\ last'.val.clickDetails = data[last'.code].click_details ]_vars

\* C17's case: get_stats has returned the data of a clicked record that is
\* past its expiry and still in the map.
C17_Witness ==
    /\ last.op = "get_stats"
    /\ last.kind = "stats"
    /\ last.code \in DOMAIN data
    /\ clock > data[last.code].expiry
    /\ last.val.clicks > 0

\* C18: a save that fails with InvalidShortcodeFormat, ShortcodeTaken or
\* ShortcodeSpaceExhausted leaves the map exactly as it was before the
\* call.
C18_FailedCreateLeavesMap ==
    [][ (last'.op = "save" /\ last'.kind \in {"InvalidFormat", "ShortcodeTaken", "Exhausted"})
            => data' = data ]_vars

\* C18's case: a save has failed with ShortcodeSpaceExhausted on a map of
\* two records.
C18_Witness ==
    /\ last.op = "save"
    /\ last.kind = "Exhausted"
    /\ Cardinality(DOMAIN data) = 2

\* C19: no save removes or alters a record that was in the map before the
\* call, live or past its expiry (its url, created, expiry, clicks and
\* click_details stay); a successful save adds exactly one key, the
\* shortcode it returns, which was not in the map before the call.
C19_CreateAddsOneKey ==
    [][ last'.op = "save" =>
          /\ \A c \in DOMAIN data : c \in DOMAIN data' /\ data'[c] = data[c]
          /\ last'.kind = "ok" =>
                /\ last'.val \notin DOMAIN data
                /\ DOMAIN data' = DOMAIN data \cup {last'.val} ]_vars

\* C19's case: a save has succeeded on a map that holds a clicked record
\* past its expiry.
C19_Witness ==
    /\ last.op = "save"
    /\ last.kind = "ok"
    /\ \E c \in DOMAIN data :
          /\ c # last.val
          /\ clock > data[c].expiry
          /\ data[c].clicks > 0

\* C20: a POST /shorturls request adds a record to the map if and only
\* if it answers 201: after a request answered 409 or 500 the map holds
\* no key that the request added, and after one answered 201 it holds one.
C20_RecordAddedIffCreated ==
    [][ last'.op = "create_short_url" =>
          (DOMAIN data' \ DOMAIN data # {} <=> last'.status = 201) ]_vars

-----------------------------------------------------------------------------
====
